---- MODULE Spec2Model ----
(***************************************************************************)
(* A model of src/servers/computer_use_mcp.py: the process-wide browser    *)
(* session (_STATE), the four tools initialize_browser, execute_action,    *)
(* capture_state and close_browser, and the coordinate helpers.            *)
(*                                                                         *)
(* The automation engine (Playwright) is an external collaborator.  Each   *)
(* call into it either completes or raises; which of the two happens is    *)
(* an input of the action that makes the call.  What a close() or stop()   *)
(* that raised left behind is not known, so the model counts as running    *)
(* only what is certainly running: an engine on which stop() was never     *)
(* called, a browser on which close() was never called.                    *)
(***************************************************************************)
EXTENDS Integers, Sequences, FiniteSets, TLC

(***************************************************************************)
(* Bounds of the model.                                                    *)
(***************************************************************************)
\* engine starts (sync_playwright().start() calls that succeed) in one run
MaxStarts == 2
\* largest normalized coordinate drawn in SpecDenorm
MaxNorm == 1000

(***************************************************************************)
(* Python values.  A value carries its type tag; a str is the sequence of  *)
(* its characters, a dict is a function from its keys.                     *)
(***************************************************************************)
PyNone == [t |-> "none"]
PyInt(n) == [t |-> "int", n |-> n]
PyBool(b) == [t |-> "bool", b |-> b]
PyStr(chars) == [t |-> "str", s |-> chars]

None == 0

NoExc == [type |-> "none", msg |-> << >>]
Exc(type, msg) == [type |-> type, msg |-> msg]

DigitValue ==
    [c \in {"0", "1", "2", "3", "4", "5", "6", "7", "8", "9"} |->
        CASE c = "0" -> 0 [] c = "1" -> 1 [] c = "2" -> 2 [] c = "3" -> 3
          [] c = "4" -> 4 [] c = "5" -> 5 [] c = "6" -> 6 [] c = "7" -> 7
          [] c = "8" -> 8 [] c = "9" -> 9]

RECURSIVE ParseDigits(_, _, _)
ParseDigits(chars, i, acc) ==
    IF i > Len(chars) THEN acc
    ELSE ParseDigits(chars, i + 1, 10 * acc + DigitValue[chars[i]])

\* int(v) that converts whatever it is given, to 0 when it is no number
IntLenient(v) ==
    CASE v.t = "int" -> [ok |-> TRUE, val |-> v.n, exc |-> NoExc]
      [] v.t = "bool" -> [ok |-> TRUE, val |-> IF v.b THEN 1 ELSE 0, exc |-> NoExc]
      [] OTHER -> [ok |-> TRUE, val |-> 0, exc |-> NoExc]

\* int(v): the integer, or the exception int() raises.  Signs, blanks and
\* underscores inside a str are not modelled: a str converts when it is a
\* nonempty run of decimal digits.
int(v) ==
    CASE v.t = "int" -> [ok |-> TRUE, val |-> v.n, exc |-> NoExc]
      [] v.t = "bool" -> [ok |-> TRUE, val |-> IF v.b THEN 1 ELSE 0, exc |-> NoExc]
      [] v.t = "str" ->
            IF v.s # << >> /\ \A i \in 1..Len(v.s) : v.s[i] \in DOMAIN DigitValue
            THEN [ok |-> TRUE, val |-> ParseDigits(v.s, 1, 0), exc |-> NoExc]
            ELSE [ok |-> FALSE, val |-> 0,
                  exc |-> Exc("ValueError",
                              <<"invalid literal for int() with base 10: ">> \o v.s)]
      [] OTHER -> [ok |-> FALSE, val |-> 0,
                   exc |-> Exc("TypeError",
                               <<"int() argument must be a string, a bytes-like object or a real number">>)]

\* bool(v): Python truthiness
bool(v) ==
    CASE v.t = "bool" -> v.b
      [] v.t = "int" -> v.n # 0
      [] v.t = "str" -> v.s # << >>
      [] OTHER -> FALSE

DigitChar == <<"0", "1", "2", "3", "4", "5", "6", "7", "8", "9">>

RECURSIVE Decimal(_)
Decimal(n) ==
    IF n < 10 THEN <<DigitChar[n + 1]>>
    ELSE Decimal(n \div 10) \o <<DigitChar[(n % 10) + 1]>>

\* str(v): the characters of the text form of v
str(v) ==
    CASE v.t = "str" -> v.s
      [] v.t = "int" -> IF v.n < 0 THEN <<"-">> \o Decimal(-v.n) ELSE Decimal(v.n)
      [] v.t = "bool" -> IF v.b THEN <<"True">> ELSE <<"False">>
      [] OTHER -> <<"None">>

(***************************************************************************)
(* IEEE 754 binary64 arithmetic, as far as denormalize_x and denormalize_y *)
(* use it: int / int (correctly rounded true division), float * int and    *)
(* int(float).  A nonzero float is its significand, most significant bit   *)
(* first, and the exponent of its last bit: value = bits * 2^exp.          *)
(***************************************************************************)
MantBits == 53
\* the arithmetic below works on 13 bits at a time: 53 = 1 + 4 * 13, and a
\* 13-bit limb times a dimension stays a machine integer
LimbBits == 13
LimbBase == 8192

RECURSIVE ShiftUp(_, _)
ShiftUp(n, c) == IF n >= c THEN 0 ELSE 1 + ShiftUp(2 * n, c)

RECURSIVE ShiftDown(_, _)
ShiftDown(n, c) == IF n < 2 * c THEN 0 ELSE 1 + ShiftDown(n, 2 * c)

RECURSIVE Pow2(_)
Pow2(k) == IF k = 0 THEN 1 ELSE 2 * Pow2(k - 1)

\* the number of bits of n >= 1
RECURSIVE BitLength(_)
BitLength(n) == IF n < 2 THEN 1 ELSE 1 + BitLength(n \div 2)

\* n < 2^k as k bits, most significant first
ToBits(n, k) == [i \in 1..k |-> (n \div Pow2(k - i)) % 2]

\* the integer a run of bits stands for
RECURSIVE BitsToInt(_, _, _)
BitsToInt(bits, i, acc) ==
    IF i > Len(bits) THEN acc ELSE BitsToInt(bits, i + 1, 2 * acc + bits[i])

\* bits + 1: one bit longer when every bit is set
IncBits(bits) ==
    LET zeros == {i \in 1..Len(bits) : bits[i] = 0}
    IN  IF zeros = {} THEN <<1>> \o [i \in 1..Len(bits) |-> 0]
        ELSE LET k == CHOOSE i \in zeros : \A j \in zeros : j <= i
             IN  [i \in 1..Len(bits) |-> IF i < k THEN bits[i] ELSE IF i = k THEN 1 ELSE 0]

\* round to nearest, ties to even; cmp compares the dropped tail with one
\* half of the last kept bit (-1 below, 0 equal, 1 above)
RoundNearestEven(bits, exp, cmp) ==
    LET up == cmp > 0 \/ (cmp = 0 /\ bits[Len(bits)] = 1)
        inc == IncBits(bits)
    IN  IF ~up THEN [bits |-> bits, exp |-> exp]
        ELSE IF Len(inc) > Len(bits)
             THEN [bits |-> SubSeq(inc, 1, Len(bits)), exp |-> exp + 1]
             ELSE [bits |-> inc, exp |-> exp]

FloatZero == [bits |-> << >>, exp |-> 0]

\* one step of the long division rem / den: the next 13 quotient bits and
\* the remainder left
DivStep(rem, den) ==
    [limb |-> (rem * LimbBase) \div den, rem |-> (rem * LimbBase) % den]

\* x / c for integers x >= 0 and c > 0: the first 53 quotient bits of the
\* long division, rounded by the remainder
TrueDiv(x, c) ==
    IF x = 0 THEN FloatZero
    ELSE LET p == ShiftUp(x, c)
             s == ShiftDown(x, c)
             n == x * Pow2(p)
             den == c * Pow2(s)
             q1 == DivStep(n - den, den)
             q2 == DivStep(q1.rem, den)
             q3 == DivStep(q2.rem, den)
             q4 == DivStep(q3.rem, den)
             bits == <<1>> \o ToBits(q1.limb, LimbBits) \o ToBits(q2.limb, LimbBits)
                     \o ToBits(q3.limb, LimbBits) \o ToBits(q4.limb, LimbBits)
             cmp == IF 2 * q4.rem > den THEN 1 ELSE IF 2 * q4.rem = den THEN 0 ELSE -1
         IN  RoundNearestEven(bits, s - p - (MantBits - 1), cmp)

\* limb k (1 the most significant) of a 53-bit significand, after its first bit
Limb(bits, k) ==
    BitsToInt(SubSeq(bits, 2 + LimbBits * (k - 1), 1 + LimbBits * k), 1, 0)

\* the exact product bits * d, most significant bit first, limb by limb from
\* the least significant with the carry passed on
MulBits(bits, d) ==
    LET t4 == Limb(bits, 4) * d
        t3 == Limb(bits, 3) * d + t4 \div LimbBase
        t2 == Limb(bits, 2) * d + t3 \div LimbBase
        t1 == Limb(bits, 1) * d + t2 \div LimbBase
        top == bits[1] * d + t1 \div LimbBase
    IN  ToBits(top, BitLength(top)) \o ToBits(t1 % LimbBase, LimbBits)
        \o ToBits(t2 % LimbBase, LimbBits) \o ToBits(t3 % LimbBase, LimbBits)
        \o ToBits(t4 % LimbBase, LimbBits)

\* f * d for a float f >= 0 and an integer d >= 0 (d is exact as a float)
FloatMulInt(f, d) ==
    IF f = FloatZero \/ d = 0 THEN FloatZero
    ELSE LET prod == MulBits(f.bits, d)
             extra == Len(prod) - MantBits
         IN  IF extra <= 0 THEN [bits |-> prod, exp |-> f.exp]
             ELSE LET tail == SubSeq(prod, MantBits + 1, Len(prod))
                      rest == \E j \in 2..Len(tail) : tail[j] = 1
                      cmp == IF tail[1] = 0 THEN -1 ELSE IF rest THEN 1 ELSE 0
                  IN  RoundNearestEven(SubSeq(prod, 1, MantBits), f.exp + extra, cmp)

\* int(f) for a float f >= 0: the integer part
FloatToInt(f) ==
    IF f = FloatZero THEN 0
    ELSE IF f.exp >= 0 THEN BitsToInt(f.bits, 1, 0) * Pow2(f.exp)
    ELSE IF Len(f.bits) + f.exp <= 0 THEN 0
    ELSE BitsToInt(SubSeq(f.bits, 1, Len(f.bits) + f.exp), 1, 0)

(***************************************************************************)
(* The coordinate helpers.  x is a Python value, the dimension an integer. *)
(* The result is the pixel, or the exception int(x) raised.                *)
(***************************************************************************)
NormScale == 1000

\* the geometry _STATE starts with and is reset to
DefaultWidth == 1440
DefaultHeight == 900

\* int(xi / 1000 * dimension) for an integer xi >= 0
Denormalize(xi, dimension) == FloatToInt(FloatMulInt(TrueDiv(xi, NormScale), dimension))

\* Denormalize on the coordinates and dimensions the requests and sessions
\* of Spec use, evaluated once
NormInputs == {0, 500, 570, 1000}
Dimensions == {600, 800, DefaultHeight, 1024, DefaultWidth}
PixelTable == [xi \in NormInputs, d \in Dimensions |-> Denormalize(xi, d)]

Pixel(xi, dimension) ==
    IF <<xi, dimension>> \in DOMAIN PixelTable THEN PixelTable[xi, dimension]
    ELSE Denormalize(xi, dimension)

denormalize_x(x, screen_width) ==
    LET xi == int(x)
    IN  IF xi.ok THEN [ok |-> TRUE, val |-> Pixel(xi.val, screen_width), exc |-> NoExc]
        ELSE xi

denormalize_y(y, screen_height) ==
    LET yi == int(y)
    IN  IF yi.ok THEN [ok |-> TRUE, val |-> Pixel(yi.val, screen_height), exc |-> NoExc]
        ELSE yi

(***************************************************************************)
(* Text.  A message or a URL is a str: the sequence of its pieces, each a  *)
(* run of characters.                                                      *)
(***************************************************************************)
Contains(text, piece) == \E i \in 1..Len(text) : text[i] = piece

EmptyMap == [k \in {} |-> TRUE]

AboutBlank == <<"about:blank">>

(***************************************************************************)
(* _STATE and the module constants                                         *)
(***************************************************************************)
_SUPPORTED_ACTIONS ==
    {"open_web_browser", "click_at", "type_text_at",
     "scroll_to_percent", "enter_text_at", "select_option_at",
     "drag_and_drop", "press_key", "execute_javascript"}

InitialState ==
    [playwright |-> None, browser |-> None, context |-> None, page |-> None,
     screen_width |-> DefaultWidth, screen_height |-> DefaultHeight]

get_page(st) == st.page

(***************************************************************************)
(* Inputs: what callers pass and what the engine answers.                  *)
(***************************************************************************)
Urls == {<<"https://example.test">>}

\* where a navigation to url ends up: at url, or where a redirect leads
Landings(url) == {url, <<"https://example.test/landing">>}

Widths == {PyInt(800), PyInt(1024), PyNone}
Heights == {PyInt(600), PyStr(<<"tall">>)}

\* the sizes initialize_browser is called with: a well-formed one, one whose
\* height is malformed, one whose width is missing
InitSizes ==
    {<<PyInt(800), PyInt(600)>>, <<PyInt(1024), PyStr(<<"tall">>)>>,
     <<PyNone, PyInt(600)>>}

\* close_browser: every engine call completes; browser.close() raises;
\* playwright.stop() raises
CloseOutcomes == {"ok", "close_raises", "stop_raises"}

\* initialize_browser: the engine call that raises, in the order the calls
\* are made, or none ("ok"); "settle_timeout" is wait_for_load_state raising
\* TimeoutError, which _await_render swallows
InitSteps == <<"start", "launch", "new_context", "new_page", "goto", "settle">>
InitOutcomes == {"ok", "settle_timeout"} \cup {InitSteps[i] : i \in 1..Len(InitSteps)}

\* wait_for_load_state: network idle reached, TimeoutError, another Error
SettleOutcomes == {"idle", "timeout", "error"}

UnknownActions == {"bogus_action"}
ActionNames == _SUPPORTED_ACTIONS \cup UnknownActions

PointArgs ==
    {[x |-> PyInt(570), y |-> PyInt(500)],
     [x |-> PyInt(1000), y |-> PyInt(0)],
     [x |-> PyInt(570)],
     [y |-> PyInt(500)],
     [x |-> PyStr(<<"abc">>), y |-> PyInt(500)],
     [x |-> PyInt(570), y |-> PyNone]}


TextArgs ==
    {[x |-> PyInt(570), y |-> PyInt(500), text |-> PyStr(<<"hi">>)],
     [x |-> PyInt(570), y |-> PyInt(500), text |-> PyStr(<<"hi">>),
      press_enter |-> PyBool(TRUE)],
     [x |-> PyInt(570), y |-> PyInt(500)],
     [x |-> PyStr(<<"abc">>), y |-> PyInt(500), text |-> PyStr(<<"hi">>)],
     [y |-> PyInt(500), text |-> PyStr(<<"hi">>)]}

UrlArgs == {EmptyMap, [url |-> PyStr(<<"https://duckduckgo.com">>)]}

\* the requests execute_action is called with
Requests ==
    {[action_name |-> "open_web_browser", args |-> a] : a \in UrlArgs}
    \cup {[action_name |-> "click_at", args |-> a] : a \in PointArgs \cup {EmptyMap}}
    \cup {[action_name |-> "type_text_at", args |-> a] : a \in TextArgs \cup {EmptyMap}}
    \cup {[action_name |-> n, args |-> a] :
            n \in ActionNames \ {"open_web_browser", "click_at", "type_text_at"},
            a \in {EmptyMap}}
    \cup {[action_name |-> n, args |-> [x |-> PyInt(570), y |-> PyInt(500)]] :
            n \in UnknownActions \cup {"press_key"}}

Platforms == {"darwin", "linux"}

Timestamps == {<<"1730000000000">>, <<"1730000000001">>}

(***************************************************************************)
(* State                                                                   *)
(***************************************************************************)
VARIABLES
    _STATE,     \* _STATE: the handles of the session and its geometry
    engines,    \* the engines started on which stop() was never called
    browsers,   \* the browsers launched on which close() was never called
    viewport,   \* the viewport of the context _STATE holds, if it holds one
    page_url,   \* page.url of the page _STATE holds, if it holds one
    started,    \* engines started so far; the next handle is started + 1
    platform,   \* sys.platform of the process
    last        \* the last call of a tool: inputs, engine calls made, outcome

vars == <<_STATE, engines, browsers, viewport, page_url, started, platform, last>>

NoViewport == [width |-> 0, height |-> 0]
NoUrl == << >>

NoResp == [returned |-> FALSE]

\* in: what the caller passed; env: what the engine answered; calls: the
\* engine calls made, in order; resp: the value returned; raised: the
\* exception that left the tool instead
Call(op, in, env, calls, resp, raised) ==
    [op |-> op, in |-> in, env |-> env, calls |-> calls, resp |-> resp,
     raised |-> raised]

Init ==
    /\ _STATE = InitialState
    /\ engines = {}
    /\ browsers = {}
    /\ viewport = NoViewport
    /\ page_url = NoUrl
    /\ started = 0
    /\ platform \in Platforms
    /\ last = Call("none", EmptyMap, EmptyMap, << >>, NoResp, NoExc)

\* the exception a failing engine call raises, and str(e)
EngineError(what) == Exc("Error", <<what, " failed">>)
StrExc(e) == e.msg

(***************************************************************************)
(* close_browser                                                           *)
(***************************************************************************)
\* ResetState with "page": None left out of the update
ResetStateKeepsPage(st) ==
    [st EXCEPT !.playwright = None, !.browser = None, !.context = None,
               !.screen_width = DefaultWidth, !.screen_height = DefaultHeight]

\* ResetState with "context": None left out of the update
ResetStateKeepsContext(st) ==
    [st EXCEPT !.playwright = None, !.browser = None, !.page = None,
               !.screen_width = DefaultWidth, !.screen_height = DefaultHeight]

\* the finally block: _STATE.update({...})
ResetState(st) ==
    [st EXCEPT !.playwright = None, !.browser = None, !.context = None,
               !.page = None, !.screen_width = DefaultWidth,
               !.screen_height = DefaultHeight]

\* StopReached without the test of the engine handle
StopReachedUnguarded(st, closeRaises) == ~closeRaises

\* whether playwright.stop() is reached in the try block
StopReached(st, closeRaises) == st.playwright # None /\ ~closeRaises

\* close_browser() from _STATE = st with engines eng and browsers br, under
\* the engine's outcome: the new _STATE, the engines and browsers never
\* asked to end, the engine calls made and the value returned
close_browser(st, eng, br, outcome) ==
    LET closeCalled == st.browser # None
        closeRaises == closeCalled /\ outcome = "close_raises"
        stopCalled == StopReached(st, closeRaises)
        stopRaises == stopCalled /\ outcome = "stop_raises"
    IN  [state |-> ResetState(st),
         engines |-> IF stopCalled THEN eng \ {st.playwright} ELSE eng,
         browsers |-> IF closeCalled THEN br \ {st.browser} ELSE br,
         calls |-> (IF closeCalled THEN <<[op |-> "browser.close", id |-> st.browser]>>
                    ELSE << >>)
                   \o (IF stopCalled THEN <<[op |-> "playwright.stop", id |-> st.playwright]>>
                       ELSE << >>),
         resp |-> IF closeRaises
                  THEN [ok |-> FALSE, error |-> StrExc(EngineError("browser.close"))]
                  ELSE IF stopRaises
                  THEN [ok |-> FALSE, error |-> StrExc(EngineError("playwright.stop"))]
                  ELSE [ok |-> TRUE]]

\* an outcome names a call that is made: the others are the same run as "ok"
CloseOutcomesAt(st) ==
    {"ok"} \cup (IF st.browser # None THEN {"close_raises"} ELSE {})
           \cup (IF st.playwright # None THEN {"stop_raises"} ELSE {})

CloseBrowser ==
    \E outcome \in CloseOutcomesAt(_STATE) :
        LET r == close_browser(_STATE, engines, browsers, outcome)
        IN  /\ _STATE' = r.state
            /\ engines' = r.engines
            /\ browsers' = r.browsers
            /\ viewport' = NoViewport
            /\ page_url' = NoUrl
            /\ last' = Call("close_browser", EmptyMap, [close |-> outcome],
                            r.calls, r.resp, NoExc)
            /\ UNCHANGED <<started, platform>>

(***************************************************************************)
(* _await_render                                                           *)
(***************************************************************************)
\* _await_render without the except clause: TimeoutError leaves it too
AwaitRenderUncaught(page, outcome) ==
    IF page = None
    THEN [calls |-> << >>,
          exc |-> Exc("AttributeError",
                      <<"'NoneType' object has no attribute 'wait_for_load_state'">>)]
    ELSE [calls |-> <<[op |-> "wait_for_load_state", page |-> page]>>,
          exc |-> IF outcome = "error" THEN EngineError("wait_for_load_state")
                  ELSE IF outcome = "timeout"
                  THEN Exc("TimeoutError", <<"Timeout 5000ms exceeded.">>)
                  ELSE NoExc]

\* wait_for_load_state on page, then the fixed sleep: the engine calls made
\* and the exception that leaves the function.  TimeoutError is caught.
_await_render(page, outcome) ==
    IF page = None
    THEN [calls |-> << >>,
          exc |-> Exc("AttributeError",
                      <<"'NoneType' object has no attribute 'wait_for_load_state'">>)]
    ELSE [calls |-> <<[op |-> "wait_for_load_state", page |-> page]>>,
          exc |-> IF outcome = "error" THEN EngineError("wait_for_load_state") ELSE NoExc]

(***************************************************************************)
(* initialize_browser                                                      *)
(***************************************************************************)
\* the position in InitSteps of the engine call that raises; past the end
\* when none does
FailIndex(outcome) ==
    IF outcome \in {"ok", "settle_timeout"} THEN Len(InitSteps) + 1
    ELSE CHOOSE i \in 1..Len(InitSteps) : InitSteps[i] = outcome

\* the viewport new_context is given
ContextViewport(st) == [width |-> st.screen_width, height |-> st.screen_height]

\* the value returned on success
InitOkResponse(st, url) ==
    [ok |-> TRUE, url |-> url, width |-> st.screen_width, height |-> st.screen_height]

\* _STATE after the try block ran up to the call that raised (f), id being
\* the handle the engine gives out
InitProgress(st, f, id) ==
    [st EXCEPT !.playwright = IF f > 1 THEN id ELSE @,
               !.browser = IF f > 2 THEN id ELSE @,
               !.context = IF f > 3 THEN id ELSE @,
               !.page = IF f > 4 THEN id ELSE @]

\* InitRollback without the close_browser() call
InitRollbackSkipped(st, eng, br, outcome) ==
    [state |-> st, engines |-> eng, browsers |-> br, calls |-> << >>, resp |-> NoResp]

\* the except branch: close_browser(), then the failure value
InitRollback(st, eng, br, outcome) == close_browser(st, eng, br, outcome)

InitCalls(st, f, id, url) ==
    LET all == <<[op |-> "sync_playwright.start", id |-> id],
                 [op |-> "chromium.launch", id |-> id],
                 [op |-> "new_context", id |-> id, viewport |-> ContextViewport(st)],
                 [op |-> "new_page", id |-> id],
                 [op |-> "goto", page |-> id, url |-> url],
                 [op |-> "wait_for_load_state", page |-> id]>>
    IN  SubSeq(all, 1, IF f > Len(all) THEN Len(all) ELSE f)

InitializeBrowser ==
    /\ started < MaxStarts
    /\ \E url \in Urls, width \in Widths, height \in Heights :
       <<width, height>> \in InitSizes /\
        LET in == [url |-> url, width |-> width, height |-> height]
            wi == int(width)
            hi == int(height)
        IN  IF ~wi.ok
            THEN \* int(width) raises before anything is touched
                 /\ last' = Call("initialize_browser", in, EmptyMap, << >>, NoResp, wi.exc)
                 /\ UNCHANGED <<_STATE, engines, browsers, viewport, page_url, started, platform>>
            ELSE IF ~hi.ok
            THEN \* int(height) raises after screen_width was stored
                 /\ _STATE' = [_STATE EXCEPT !.screen_width = wi.val]
                 /\ last' = Call("initialize_browser", in, EmptyMap, << >>, NoResp, hi.exc)
                 /\ UNCHANGED <<engines, browsers, viewport, page_url, started, platform>>
            ELSE
              LET st1 == [_STATE EXCEPT !.screen_width = wi.val, !.screen_height = hi.val]
                  reopen == get_page(st1) # None
              IN  \E c1 \in (IF reopen THEN CloseOutcomesAt(st1) ELSE {"ok"}),
                     outcome \in InitOutcomes :
                    LET m1 == IF reopen THEN close_browser(st1, engines, browsers, c1)
                              ELSE [state |-> st1, engines |-> engines,
                                    browsers |-> browsers, calls |-> << >>,
                                    resp |-> NoResp]
                        f == FailIndex(outcome)
                        id == started + 1
                        st2 == InitProgress(m1.state, f, id)
                        eng2 == IF f > 1 THEN m1.engines \cup {id} ELSE m1.engines
                        br2 == IF f > 2 THEN m1.browsers \cup {id} ELSE m1.browsers
                        calls2 == m1.calls \o InitCalls(m1.state, f, id, url)
                    IN  \E landed \in (IF f > 5 THEN Landings(url) ELSE {AboutBlank}) :
                          /\ started' = IF f > 1 THEN started + 1 ELSE started
                          /\ UNCHANGED platform
                          /\ IF f > Len(InitSteps)
                             THEN /\ _STATE' = st2
                                  /\ engines' = eng2
                                  /\ browsers' = br2
                                  /\ viewport' = ContextViewport(m1.state)
                                  /\ page_url' = landed
                                  /\ last' = Call("initialize_browser", in,
                                                  [reopen |-> c1, outcome |-> outcome],
                                                  calls2,
                                                  InitOkResponse(st2, landed), NoExc)
                             ELSE \E c2 \in CloseOutcomesAt(st2) :
                                    LET m3 == InitRollback(st2, eng2, br2, c2)
                                        e == EngineError(InitSteps[f])
                                    IN  /\ _STATE' = m3.state
                                        /\ engines' = m3.engines
                                        /\ browsers' = m3.browsers
                                        /\ viewport' = NoViewport
                                        /\ page_url' = NoUrl
                                        /\ last' = Call("initialize_browser", in,
                                                        [reopen |-> c1,
                                                         outcome |-> outcome,
                                                         rollback |-> c2],
                                                        calls2 \o m3.calls,
                                                        [ok |-> FALSE,
                                                         error |-> <<"Browser initialization failed: ">>
                                                                   \o StrExc(e)],
                                                        NoExc)

(***************************************************************************)
(* The action handlers.  Each returns the dict it builds (result), the     *)
(* exception that leaves it (exc), the engine calls it made (calls) and    *)
(* where the page ended up when it navigated (nav, else << >>).  failAt is *)
(* the position of the engine call that raises, 0 when none does.          *)
(***************************************************************************)
Handled(result, calls, nav) ==
    [result |-> result, exc |-> NoExc, calls |-> calls, nav |-> nav]

Raised(exc, calls) ==
    [result |-> EmptyMap, exc |-> exc, calls |-> calls, nav |-> << >>]

NotInitializedError == Exc("RuntimeError", <<"Browser not initialized.">>)

\* the engine calls of plan in order, up to the one that raises
Issue(plan, failAt, result, nav) ==
    IF failAt = 0 \/ failAt > Len(plan) THEN Handled(result, plan, nav)
    ELSE Raised(EngineError(plan[failAt].op), SubSeq(plan, 1, failAt))

_execute_open_web_browser(st, args, failAt, landed) ==
    LET page == get_page(st)
        url == IF "url" \in DOMAIN args THEN args.url ELSE PyStr(AboutBlank)
    IN  IF page = None THEN Raised(NotInitializedError, << >>)
        ELSE Issue(<<[op |-> "goto", page |-> page, url |-> str(url)]>>, failAt,
                   [status |-> <<"Navigated to ">> \o landed], landed)

\* the body of _execute_click_at once x and y are converted
ClickAt(page, x, y, failAt) ==
    IF ~x.ok THEN Raised(x.exc, << >>)
    ELSE IF ~y.ok THEN Raised(y.exc, << >>)
    ELSE Issue(<<[op |-> "mouse.click", page |-> page, x |-> x.val, y |-> y.val]>>,
               failAt,
               [status |-> <<"Clicked at (">> \o Decimal(x.val) \o <<", ">>
                           \o Decimal(y.val) \o <<")">>],
               << >>)

_execute_click_at(st, args, failAt) ==
    IF get_page(st) = None THEN Raised(NotInitializedError, << >>)
    ELSE IF "x" \notin DOMAIN args \/ "y" \notin DOMAIN args
    THEN Raised(Exc("ValueError",
                    <<"click_at requires numeric 'x' and 'y' in 0..1000">>), << >>)
    ELSE ClickAt(get_page(st),
                 denormalize_x(args.x, st.screen_width),
                 denormalize_y(args.y, st.screen_height), failAt)

\* the select-all chord of the platform
SelectAllKey(plat) == IF plat = "darwin" THEN "Meta+A" ELSE "Control+A"

\* TypeTextAt typing before it clears the field
TypeTextAtTypeFirst(page, plat, x, y, text, press_enter, failAt) ==
    IF ~x.ok THEN Raised(x.exc, << >>)
    ELSE IF ~y.ok THEN Raised(y.exc, << >>)
    ELSE Issue(<<[op |-> "mouse.click", page |-> page, x |-> x.val, y |-> y.val],
                 [op |-> "keyboard.type", page |-> page, text |-> text],
                 [op |-> "keyboard.press", page |-> page, key |-> SelectAllKey(plat)],
                 [op |-> "keyboard.press", page |-> page, key |-> "Delete"]>>
               \o (IF press_enter
                   THEN <<[op |-> "keyboard.press", page |-> page, key |-> "Enter"]>>
                   ELSE << >>),
               failAt,
               [status |-> <<"Typed text at (">> \o Decimal(x.val) \o <<", ">>
                           \o Decimal(y.val) \o <<"), enter: ">>
                           \o str(PyBool(press_enter))],
               << >>)

\* the body of _execute_type_text_at once x, y, text and press_enter are
\* converted: click to focus, clear, type, Enter on request
TypeTextAt(page, plat, x, y, text, press_enter, failAt) ==
    IF ~x.ok THEN Raised(x.exc, << >>)
    ELSE IF ~y.ok THEN Raised(y.exc, << >>)
    ELSE Issue(<<[op |-> "mouse.click", page |-> page, x |-> x.val, y |-> y.val],
                 [op |-> "keyboard.press", page |-> page, key |-> SelectAllKey(plat)],
                 [op |-> "keyboard.press", page |-> page, key |-> "Delete"],
                 [op |-> "keyboard.type", page |-> page, text |-> text]>>
               \o (IF press_enter
                   THEN <<[op |-> "keyboard.press", page |-> page, key |-> "Enter"]>>
                   ELSE << >>),
               failAt,
               [status |-> <<"Typed text at (">> \o Decimal(x.val) \o <<", ">>
                           \o Decimal(y.val) \o <<"), enter: ">>
                           \o str(PyBool(press_enter))],
               << >>)

_execute_type_text_at(st, plat, args, failAt) ==
    IF get_page(st) = None THEN Raised(NotInitializedError, << >>)
    ELSE IF \E k \in {"x", "y", "text"} : k \notin DOMAIN args
    THEN Raised(Exc("ValueError", <<"type_text_at requires 'x','y','text'">>), << >>)
    ELSE TypeTextAt(get_page(st), plat,
                    denormalize_x(args.x, st.screen_width),
                    denormalize_y(args.y, st.screen_height),
                    str(args.text),
                    bool(IF "press_enter" \in DOMAIN args
                         THEN args.press_enter ELSE PyBool(FALSE)),
                    failAt)

(***************************************************************************)
(* execute_action                                                          *)
(***************************************************************************)
\* NotInitialized with the check left out
NotInitializedUnchecked(st) == FALSE

\* the guard of execute_action and capture_state
NotInitialized(st) == get_page(st) = None

NotInitializedResponse ==
    [ok |-> FALSE, error |-> <<"Browser not initialized. Use /cu:init first.">>]

UnimplementedResult(action_name) ==
    [status |-> <<"Warning: Action '", action_name,
                  "' is supported by the model but not implemented in this MCP. Skipping.">>,
     unimplemented |-> TRUE]

UnknownResult(action_name) ==
    [status |-> <<"Error: Unknown or unsupported action: ", action_name>>,
     error |-> TRUE]

\* the if/elif chain of the try block
Dispatch(st, plat, action_name, args, failAt, landed) ==
    LET default == [status |-> <<"Action completed successfully.">>]
        updated(h) == [h EXCEPT !.result = h.result @@ default]
    IN  IF action_name = "open_web_browser"
        THEN updated(_execute_open_web_browser(st, args, failAt, landed))
        ELSE IF action_name = "click_at"
        THEN updated(_execute_click_at(st, args, failAt))
        ELSE IF action_name = "type_text_at"
        THEN updated(_execute_type_text_at(st, plat, args, failAt))
        ELSE IF action_name \in _SUPPORTED_ACTIONS
        THEN Handled(UnimplementedResult(action_name), << >>, << >>)
        ELSE Handled(UnknownResult(action_name), << >>, << >>)

\* the except branch
ActionFailure(action_name, e) ==
    [ok |-> FALSE, action_name |-> action_name, error |-> StrExc(e), result |-> EmptyMap]

\* the end of the try block: the handler's result h, then _await_render's r
Respond(action_name, h, r) ==
    IF h.exc # NoExc
    THEN [resp |-> ActionFailure(action_name, h.exc), calls |-> h.calls, nav |-> h.nav]
    ELSE IF r.exc # NoExc
    THEN [resp |-> ActionFailure(action_name, r.exc),
          calls |-> h.calls \o r.calls, nav |-> h.nav]
    ELSE [resp |-> [ok |-> TRUE, action_name |-> action_name, result |-> h.result],
          calls |-> h.calls \o r.calls, nav |-> h.nav]

\* execute_action(action_name, args): the value returned, the engine calls
\* made and where the page ended up when it navigated
execute_action(st, plat, action_name, args, failAt, landed, settle) ==
    IF NotInitialized(st)
    THEN [resp |-> NotInitializedResponse, calls |-> << >>, nav |-> << >>]
    ELSE Respond(action_name,
                 Dispatch(st, plat, action_name, args, failAt, landed),
                 _await_render(get_page(st), settle))

\* the engine calls the handler of a request makes when none raises
PlanLength(st, plat, req) ==
    IF NotInitialized(st) THEN 0
    ELSE Len(Dispatch(st, plat, req.action_name, req.args, 0, AboutBlank).calls)

\* Executed dropping the page handle when the action failed
ExecutedDropsPage(req, env, r) ==
    /\ last' = Call("execute_action", req, env, r.calls, r.resp, NoExc)
    /\ page_url' = IF r.nav # << >> THEN r.nav ELSE page_url
    /\ _STATE' = IF r.resp.ok THEN _STATE ELSE [_STATE EXCEPT !.page = None]
    /\ UNCHANGED <<engines, browsers, viewport, started, platform>>

\* the outcome r of a call with request req takes effect
Executed(req, env, r) ==
    /\ last' = Call("execute_action", req, env, r.calls, r.resp, NoExc)
    /\ page_url' = IF r.nav # << >> THEN r.nav ELSE page_url
    /\ UNCHANGED <<_STATE, engines, browsers, viewport, started, platform>>

ExecuteAction ==
    \E req \in Requests :
      \E failAt \in 0..PlanLength(_STATE, platform, req) :
        \E landed \in (IF req.action_name = "open_web_browser" /\ failAt = 0
                          /\ ~NotInitialized(_STATE)
                       THEN Landings(str(IF "url" \in DOMAIN req.args
                                         THEN req.args.url ELSE PyStr(AboutBlank)))
                       ELSE {AboutBlank}),
           settle \in (IF failAt = 0 /\ ~NotInitialized(_STATE)
                       THEN SettleOutcomes ELSE {"idle"}) :
          Executed(req, [failAt |-> failAt, settle |-> settle],
                   execute_action(_STATE, platform, req.action_name, req.args,
                                  failAt, landed, settle))

(***************************************************************************)
(* capture_state                                                           *)
(***************************************************************************)
CaptureNames == {"click_at"}
ErrorMsgs == {<< >>, <<"element not found">>}
\* the screenshot and the file are taken and written; page.screenshot
\* raises; creating or writing the file raises
CaptureOutcomes == {"ok", "screenshot", "write"}

CaptureFailure(e) == [ok |-> FALSE, error |-> <<"State capture failed: ">> \o StrExc(e)]

\* ResponseData with the error attached whatever result_ok is
ResponseDataAlwaysError(current_url, result_ok, error_msg) ==
    [url |-> current_url, error |-> error_msg]

\* response_data: the URL, and the error when result_ok is false
ResponseData(current_url, result_ok, error_msg) ==
    IF ~result_ok THEN [url |-> current_url, error |-> error_msg]
    ELSE [url |-> current_url]

capture_state(st, url, action_name, result_ok, error_msg, ms, outcome) ==
    LET page == get_page(st)
        shot == <<[op |-> "screenshot", page |-> page]>>
    IN  IF NotInitialized(st)
        THEN [resp |-> [ok |-> FALSE,
                        error |-> <<"Browser not initialized. Cannot capture state.">>],
              calls |-> << >>]
        ELSE IF outcome = "screenshot"
        THEN [resp |-> CaptureFailure(EngineError("screenshot")), calls |-> shot]
        ELSE IF outcome = "write"
        THEN [resp |-> CaptureFailure(Exc("OSError", <<"cannot write the screenshot">>)),
              calls |-> shot]
        ELSE LET current_url == url
                 fpath == <<"/tmp/gemini_computer_use", "/">> \o ms
                          \o <<"_", action_name, ".png">>
                 response_data == ResponseData(current_url, result_ok, error_msg)
             IN  [resp |-> [ok |-> TRUE, path |-> fpath, mime_type |-> "image/png",
                            url |-> current_url, response_data |-> response_data],
                  calls |-> shot]

CaptureState ==
    \E action_name \in CaptureNames, result_ok \in BOOLEAN, error_msg \in ErrorMsgs,
       ms \in Timestamps :
      \E outcome \in (IF NotInitialized(_STATE) THEN {"ok"} ELSE CaptureOutcomes) :
        LET r == capture_state(_STATE, page_url, action_name, result_ok, error_msg,
                               ms, outcome)
        IN  /\ last' = Call("capture_state",
                            [action_name |-> action_name, result_ok |-> result_ok,
                             error_msg |-> error_msg],
                            [capture |-> outcome], r.calls, r.resp, NoExc)
            /\ UNCHANGED <<_STATE, engines, browsers, viewport, page_url, started, platform>>

(***************************************************************************)
(* The server: the tools are called one at a time, in any order.           *)
(***************************************************************************)
Next ==
    \/ InitializeBrowser
    \/ ExecuteAction
    \/ CaptureState
    \/ CloseBrowser

Spec == Init /\ [][Next]_vars

(***************************************************************************)
(* The coordinate helpers on their own: a normalized coordinate and a      *)
(* dimension are drawn, then each helper is applied to them.               *)
(***************************************************************************)
DenormDimensions == {1, 100, 600, 800, DefaultHeight, DefaultWidth}

InitDenorm ==
    /\ _STATE = InitialState
    /\ engines = {}
    /\ browsers = {}
    /\ viewport = NoViewport
    /\ page_url = NoUrl
    /\ started = 0
    /\ platform = "linux"
    /\ \E n \in 0..MaxNorm, d \in DenormDimensions :
         last = Call("drawn", [norm |-> n, dimension |-> d], EmptyMap, << >>,
                     NoResp, NoExc)

ApplyDenormalizeX ==
    /\ last.op = "drawn"
    /\ last' = Call("denormalize_x", last.in, EmptyMap, << >>,
                    denormalize_x(PyInt(last.in.norm), last.in.dimension), NoExc)
    /\ UNCHANGED <<_STATE, engines, browsers, viewport, page_url, started, platform>>

ApplyDenormalizeY ==
    /\ last.op = "drawn"
    /\ last' = Call("denormalize_y", last.in, EmptyMap, << >>,
                    denormalize_y(PyInt(last.in.norm), last.in.dimension), NoExc)
    /\ UNCHANGED <<_STATE, engines, browsers, viewport, page_url, started, platform>>

NextDenorm == ApplyDenormalizeX \/ ApplyDenormalizeY

SpecDenorm == InitDenorm /\ [][NextDenorm]_vars

(***************************************************************************)
(* Properties                                                              *)
(***************************************************************************)
HandlesAbsent(st) ==
    st.playwright = None /\ st.browser = None /\ st.context = None /\ st.page = None

HandlesPresent(st) ==
    st.playwright # None /\ st.browser # None /\ st.context # None /\ st.page # None

\* the last call returned a value with an ok field
ReturnedOk == "ok" \in DOMAIN last.resp

\* an engine call of initialize_browser's try block raised
InitStepRaised ==
    /\ last.op = "initialize_browser"
    /\ "outcome" \in DOMAIN last.env
    /\ \E i \in 1..Len(InitSteps) : last.env.outcome = InitSteps[i]

\* C1: execute_action called while the session is closed (no page held:
\* before any initialize_browser, after close_browser, after a failed
\* initialize_browser) returns ok=false with the fixed not-initialized error,
\* whatever the action name and args, and makes no engine call.
C1_ClosedSessionRefuses ==
    (last.op = "execute_action" /\ _STATE.page = None) =>
        /\ last.resp = [ok |-> FALSE,
                        error |-> <<"Browser not initialized. Use /cu:init first.">>]
        /\ last.calls = << >>

\* an unknown action refused after a session had been started and ended
C1_Witness ==
    /\ last.op = "execute_action"
    /\ _STATE.page = None
    /\ started > 0
    /\ last.in.action_name \in UnknownActions
    /\ last.resp = NotInitializedResponse

\* C2: whenever initialize_browser(url, width, height) returns ok=true, the
\* context was created with the viewport (width, height) and the response
\* reports the requested width and height, also when a session was open and
\* was closed first.
C2_GeometryAsRequested ==
    (last.op = "initialize_browser" /\ ReturnedOk /\ last.resp.ok) =>
        /\ viewport = [width |-> int(last.in.width).val,
                       height |-> int(last.in.height).val]
        /\ last.resp.width = int(last.in.width).val
        /\ last.resp.height = int(last.in.height).val

\* C3: at most one engine and one browser started by the server is running
\* at any time; a reopen ends the first session's browser and engine before
\* it starts the second engine.
C3_AtMostOneEngine ==
    Cardinality(engines) <= 1 /\ Cardinality(browsers) <= 1

\* C4: after close_browser returns, with ok=true or ok=false, whether or not
\* browser.close() or playwright.stop() raised, the four handles are absent,
\* so that execute_action and capture_state called next return ok=false.
C4_CloseAlwaysResets ==
    last.op = "close_browser" =>
        /\ ReturnedOk
        /\ HandlesAbsent(_STATE)
        /\ \A req \in Requests, settle \in SettleOutcomes :
             ~execute_action(_STATE, platform, req.action_name, req.args, 0,
                             AboutBlank, settle).resp.ok
        /\ \A result_ok \in BOOLEAN, outcome \in CaptureOutcomes :
             ~capture_state(_STATE, page_url, "click_at", result_ok, << >>,
                            <<"1730000000000">>, outcome).resp.ok

\* close_browser returned ok=false because browser.close() raised
C4_Witness ==
    /\ last.op = "close_browser"
    /\ last.env.close = "close_raises"
    /\ ~last.resp.ok
    /\ HandlesAbsent(_STATE)

\* C5: if an engine call of initialize_browser raises (start, launch,
\* new_context, new_page, goto, the settle wait), the call returns ok=false
\* with an error message and leaves every handle absent, also when it began
\* with a session open.
C5_FailedInitRollsBack ==
    InitStepRaised =>
        /\ last.raised = NoExc
        /\ ReturnedOk
        /\ ~last.resp.ok
        /\ "error" \in DOMAIN last.resp
        /\ last.resp.error # << >>
        /\ HandlesAbsent(_STATE)

\* a reopen whose navigation raised: the old browser was closed first
C5_Witness ==
    /\ InitStepRaised
    /\ last.env.outcome = "goto"
    /\ last.calls # << >>
    /\ last.calls[1].op = "browser.close"
    /\ ~last.resp.ok
    /\ HandlesAbsent(_STATE)

\* C6: no input and no engine failure makes a tool raise to its caller:
\* every call ends by returning a value with an ok field.
C6_NothingEscapes ==
    last.op # "none" => (last.raised = NoExc /\ ReturnedOk)

\* C7: with the session open, execute_action with a name outside the nine
\* supported names returns ok=true with result.error=true and a status that
\* contains the name, whatever the args and whatever the engine does.
C7_UnknownActionIsData ==
    (/\ last.op = "execute_action"
     /\ _STATE.page # None
     /\ last.in.action_name \notin _SUPPORTED_ACTIONS) =>
        /\ last.resp.ok
        /\ "error" \in DOMAIN last.resp.result
        /\ last.resp.result.error = TRUE
        /\ Contains(last.resp.result.status, last.in.action_name)

\* C8: with the session open, execute_action with one of the six recognized
\* but unimplemented names returns ok=true with result.unimplemented=true
\* and no result.error, and never fails the caller.
C8_UnimplementedIsSuccess ==
    (/\ last.op = "execute_action"
     /\ _STATE.page # None
     /\ last.in.action_name \in
            _SUPPORTED_ACTIONS \ {"open_web_browser", "click_at", "type_text_at"}) =>
        /\ last.resp.ok
        /\ "unimplemented" \in DOMAIN last.resp.result
        /\ last.resp.result.unimplemented = TRUE
        /\ "error" \notin DOMAIN last.resp.result

\* C9: for every integer x in 0..1000 and every positive dimension d,
\* denormalize_x(x, d) and denormalize_y(x, d) are floor(x * d / 1000) in
\* exact integer arithmetic: 0 for x = 0 and d for x = 1000.
C9_DenormalizeIsFloor ==
    last.op \in {"denormalize_x", "denormalize_y"} =>
        /\ last.resp.ok
        /\ last.resp.val = (last.in.norm * last.in.dimension) \div NormScale

\* C10: every execute_action response carries the action_name it was called
\* with; every ok=false response also carries an error string and result
\* equal to the empty mapping, the not-initialized response included.
C10_ResponseShape ==
    last.op = "execute_action" =>
        /\ "action_name" \in DOMAIN last.resp
        /\ last.resp.action_name = last.in.action_name
        /\ (~last.resp.ok =>
              /\ "error" \in DOMAIN last.resp
              /\ "result" \in DOMAIN last.resp
              /\ last.resp.result = EmptyMap)

\* the calls of the last tool call that are pointer or keyboard input
InputOps == {"mouse.click", "keyboard.press", "keyboard.type"}

\* C11: in every state where the session is open, the stored geometry that
\* click_at and type_text_at convert with is the viewport of the live
\* context, after any sequence of opens, reopens, failed opens and closes; so
\* a click of click_at {x, y} lands at (floor(x*W/1000), floor(y*H/1000))
\* for the live viewport (W, H).
C11_GeometryIsLiveViewport ==
    _STATE.page # None =>
        /\ ContextViewport(_STATE) = viewport
        /\ (last.op = "execute_action" /\ last.in.action_name = "click_at") =>
              \A i \in 1..Len(last.calls) :
                 last.calls[i].op = "mouse.click" =>
                    /\ last.calls[i].x
                         = (int(last.in.args.x).val * viewport.width) \div NormScale
                    /\ last.calls[i].y
                         = (int(last.in.args.y).val * viewport.height) \div NormScale

\* C12: capture_state called while the session is closed returns ok=false
\* and takes no screenshot; when it returns ok=true, response_data holds the
\* current page URL, and holds an error field, equal to error_msg, if and
\* only if result_ok is false.
C12_CaptureResponse ==
    last.op = "capture_state" =>
        /\ _STATE.page = None => (~last.resp.ok /\ last.calls = << >>)
        /\ last.resp.ok =>
              /\ last.resp.response_data.url = page_url
              /\ ("error" \in DOMAIN last.resp.response_data) <=> ~last.in.result_ok
              /\ ~last.in.result_ok =>
                    last.resp.response_data.error = last.in.error_msg

\* a capture of a successful action on a page that a navigation redirected
C12_Witness ==
    /\ last.op = "capture_state"
    /\ last.resp.ok
    /\ last.in.result_ok
    /\ page_url = <<"https://example.test/landing">>
    /\ last.resp.response_data = [url |-> page_url]

\* C13: close_browser attempts browser.close() and playwright.stop()
\* independently: when browser.close() raises, playwright.stop() is still
\* called, so no started engine is left running once the handles are absent.
C13_CloseStepsIndependent ==
    /\ (last.op = "close_browser" /\ last.env.close = "close_raises") =>
          \E i \in 1..Len(last.calls) : last.calls[i].op = "playwright.stop"
    /\ HandlesAbsent(_STATE) => engines = {}

\* C14: whenever a tool has returned, the four handles (engine, browser,
\* context, page) are all present or all absent: no sequence of calls and
\* engine failures leaves a partial session between calls.
C14_NoPartialSession ==
    HandlesPresent(_STATE) \/ HandlesAbsent(_STATE)

\* an initialize_browser that held engine, browser and context when
\* new_page raised, and whose rollback raised while closing the browser
C14_Witness ==
    /\ InitStepRaised
    /\ last.env.outcome = "new_page"
    /\ last.env.rollback = "close_raises"
    /\ HandlesAbsent(_STATE)

\* the last call was execute_action of type_text_at on an open session
TypedText ==
    /\ last.op = "execute_action"
    /\ last.in.action_name = "type_text_at"
    /\ _STATE.page # None

\* C15: a successful type_text_at issues its page primitives in exactly this
\* order: pointer click at the resolved coordinates, select-all chord, Delete,
\* typing of the literal text, then Enter if and only if press_enter is true;
\* typing never comes before the select-all and the Delete, also in a call
\* that a later primitive made fail.
C15_TypeSequence ==
    TypedText =>
        /\ last.resp.ok =>
              LET args == last.in.args
                  page == _STATE.page
                  enter == "press_enter" \in DOMAIN args /\ args.press_enter = PyBool(TRUE)
              IN  last.calls =
                    <<[op |-> "mouse.click", page |-> page,
                       x |-> denormalize_x(args.x, _STATE.screen_width).val,
                       y |-> denormalize_y(args.y, _STATE.screen_height).val],
                      [op |-> "keyboard.press", page |-> page,
                       key |-> SelectAllKey(platform)],
                      [op |-> "keyboard.press", page |-> page, key |-> "Delete"],
                      [op |-> "keyboard.type", page |-> page, text |-> args.text.s]>>
                    \o (IF enter
                        THEN <<[op |-> "keyboard.press", page |-> page, key |-> "Enter"]>>
                        ELSE << >>)
                    \o <<[op |-> "wait_for_load_state", page |-> page]>>
        /\ \A i \in 1..Len(last.calls) :
              last.calls[i].op = "keyboard.type" =>
                 /\ i = 4
                 /\ last.calls[2].op = "keyboard.press"
                 /\ last.calls[2].key = SelectAllKey(platform)
                 /\ last.calls[3].op = "keyboard.press"
                 /\ last.calls[3].key = "Delete"

\* a successful type_text_at with press_enter on a darwin host
C15_Witness ==
    /\ TypedText
    /\ last.resp.ok
    /\ platform = "darwin"
    /\ "press_enter" \in DOMAIN last.in.args
    /\ Len(last.calls) = 6
    /\ last.calls[5].key = "Enter"

\* the calls of the last tool call that navigate the page or give it input
PagePrimitives == InputOps \cup {"goto"}

\* C16: whenever an execute_action call has issued a navigation or input
\* primitive on the page, wait_for_load_state (the render settler) is called
\* on that page before the call returns, also when a later primitive of the
\* same action raised and the call returns ok=false.
C16_SettlerAfterTouch ==
    (/\ last.op = "execute_action"
     /\ \E i \in 1..Len(last.calls) :
           /\ last.calls[i].op \in PagePrimitives
           /\ (last.env.failAt = 0 \/ i < last.env.failAt)) =>
        /\ last.calls[Len(last.calls)].op = "wait_for_load_state"
        /\ last.calls[Len(last.calls)].page = _STATE.page

\* a value that is no number: None, or a str that is not a run of digits
NonNumeric(v) ==
    \/ v.t = "none"
    \/ v.t = "str" /\ (v.s = << >> \/ \E i \in 1..Len(v.s) : v.s[i] \notin DOMAIN DigitValue)

\* the args of the last execute_action fail validation: click_at without x
\* or y; type_text_at without x, y or text, or with a non-numeric x or y
InvalidArgs ==
    LET args == last.in.args
    IN  \/ /\ last.in.action_name = "click_at"
           /\ ("x" \notin DOMAIN args \/ "y" \notin DOMAIN args)
        \/ /\ last.in.action_name = "type_text_at"
           /\ \/ \E k \in {"x", "y", "text"} : k \notin DOMAIN args
              \/ NonNumeric(args.x)
              \/ NonNumeric(args.y)

\* C17: with the session open, click_at called without x or without y, and
\* type_text_at called without x, y or text or with a non-numeric x or y,
\* return ok=false with an error and issue no pointer click and no key press
\* on the page.
C17_ValidationFailure ==
    (last.op = "execute_action" /\ _STATE.page # None /\ InvalidArgs) =>
        /\ ~last.resp.ok
        /\ "error" \in DOMAIN last.resp
        /\ last.resp.error # << >>
        /\ \A i \in 1..Len(last.calls) : last.calls[i].op \notin InputOps

\* type_text_at refused for an x that is text, on an open session
C17_Witness ==
    /\ last.op = "execute_action"
    /\ _STATE.page # None
    /\ last.in.action_name = "type_text_at"
    /\ DOMAIN last.in.args = {"x", "y", "text"}
    /\ last.in.args.x = PyStr(<<"abc">>)
    /\ ~last.resp.ok
    /\ last.calls = << >>

\* C18: a timeout of the network-idle wait is not fatal: when every primitive
\* of open_web_browser, click_at or type_text_at succeeded and only
\* wait_for_load_state timed out, execute_action returns ok=true; an
\* initialize_browser whose navigation succeeded and whose wait timed out
\* returns ok=true with the session open.
C18_SettleTimeoutNotFatal ==
    /\ (/\ last.op = "execute_action"
        /\ last.env.settle = "timeout"
        /\ last.env.failAt = 0
        /\ \E i \in 1..Len(last.calls) : last.calls[i].op \in PagePrimitives) =>
           /\ last.resp.ok
           /\ last.resp.action_name = last.in.action_name
           /\ last.calls[Len(last.calls)].op = "wait_for_load_state"
    /\ (/\ last.op = "initialize_browser"
        /\ "outcome" \in DOMAIN last.env
        /\ last.env.outcome = "settle_timeout") =>
           /\ last.resp.ok
           /\ HandlesPresent(_STATE)

\* a click that succeeded and whose wait for network idle timed out
C18_Witness ==
    /\ last.op = "execute_action"
    /\ last.in.action_name = "click_at"
    /\ last.env.settle = "timeout"
    /\ Len(last.calls) = 2
    /\ last.calls[1].op = "mouse.click"
    /\ last.resp.ok

\* C19: execute_action and capture_state never change the session state:
\* whatever the action name, the args and the engine's outcome, the four
\* handles and the stored width and height after the call are those before
\* it, so a failed action leaves the session open.
C19_ActionsKeepSession ==
    [][last'.op \in {"execute_action", "capture_state"} => _STATE' = _STATE]_vars

\* a type_text_at whose third primitive raised, the session still open
C19_Witness ==
    /\ last.op = "execute_action"
    /\ last.in.action_name = "type_text_at"
    /\ last.env.failAt = 3
    /\ ~last.resp.ok
    /\ HandlesPresent(_STATE)
    /\ ContextViewport(_STATE) = viewport

\* C20: close_browser is idempotent: called while the session is closed it
\* makes no browser or engine call, returns ok=true and leaves the session
\* closed with the default geometry 1440x900, so a second close_browser
\* leaves the state the first one left.
C20_CloseIdempotent ==
    [][(last'.op = "close_browser" /\ _STATE.page = None) =>
          /\ last'.calls = << >>
          /\ last'.resp = [ok |-> TRUE]
          /\ _STATE' = InitialState
          /\ (last.op = "close_browser" => _STATE' = _STATE)]_vars

\* close_browser called on a closed session, after an engine had been started
C20_Witness ==
    /\ last.op = "close_browser"
    /\ last.calls = << >>
    /\ last.resp = [ok |-> TRUE]
    /\ _STATE = InitialState
    /\ started > 0

====
